---- MODULE Spec2Model ----
(***************************************************************************)
(* State-machine model of daily_digest.py: Configuration, ArxivFetcher,    *)
(* GeminiSummarizer (generate_digest, _create_summary_content),            *)
(* EmailSender and DailyDigestApp.                                         *)
(*                                                                         *)
(* Strings are sequences of one-character strings.  A paper is identified  *)
(* by its 0-based position in the fetched list, so the list papers of    *)
(* length N is <<0, 1, ..., N-1>> and papers[i] of the code is             *)
(* PyIndex(papers, i).                                                     *)
(***************************************************************************)
EXTENDS Integers, Sequences, FiniteSets, TLC

VARIABLES
    env,               \* the process environment (os.getenv)
    config,            \* DailyDigestApp.config, None before construction
    pc,                \* position of the process in the program
    papers,            \* the list returned by fetch_papers
    fetches,           \* number of corpus fetches started
    calls,             \* generate_content calls, in the order issued
    text,              \* local text of generate_digest (None outside it)
    selected_indices,  \* local/argument selected_indices
    selected_papers,   \* local/argument selected_papers (positions)
    k,                 \* 1-based position of the for loop over selected_papers
    summary_html,      \* the accumulating document, a sequence of pieces
    bonus_papers,      \* result of random.sample
    sent               \* delivery state of EmailSender.send_email

vars == <<env, config, pc, papers, fetches, calls, text, selected_indices,
          selected_papers, k, summary_html, bonus_papers, sent>>

----------------------------------------------------------------------------
(* Bounds of the model *)

MaxN == 4

MaxTextLen == 5

(* Program constants *)

TopK == 3

BonusK == 3

----------------------------------------------------------------------------
(* Values *)

None == <<"<None>">>

Digits == {"0", "1", "2"}

Alphabet == Digits \cup {" "}

RECURSIVE StringsUpTo(_)
StringsUpTo(n) ==
    IF n = 0 THEN {<<>>}
    ELSE LET shorter == StringsUpTo(n - 1)
         IN  shorter \cup {Append(s, c) : s \in {t \in shorter : Len(t) = n - 1}, c \in Alphabet}

SelectionTexts == StringsUpTo(MaxTextLen)

NarrativeTexts == { <<"<div>">>, <<"FENCE_HTML", "<div>", "FENCE">> }

KeyValues == {None, <<>>, <<"k">>}

ReceiverValues == {None, <<>>, <<"a", ",", "b">>}

Min(a, b) == IF a < b THEN a ELSE b

Range(s) == {s[i] : i \in 1..Len(s)}

----------------------------------------------------------------------------
(* Python helpers *)

\* s[:n]
Take(s, n) == SubSeq(s, 1, Min(n, Len(s)))

\* s[i] for a 0-based i that is in range
PyIndex(s, i) == s[i + 1]

\* truthiness of None, a string or a list
Truthy(v) == v # None /\ v # <<>>

\* all([...])
All(vs) == \A i \in 1..Len(vs) : Truthy(vs[i])

\* os.getenv(name) and os.getenv(name, default)
Getenv(e, name) == e[name]

GetenvDefault(e, name, default) == IF e[name] = None THEN default ELSE e[name]

\* str.split(sep): always at least one field
RECURSIVE SplitFrom(_, _, _, _)
SplitFrom(s, sep, i, cur) ==
    IF i > Len(s) THEN <<cur>>
    ELSE IF s[i] = sep THEN <<cur>> \o SplitFrom(s, sep, i + 1, <<>>)
    ELSE SplitFrom(s, sep, i + 1, Append(cur, s[i]))

Split(s, sep) == SplitFrom(s, sep, 1, <<>>)

\* str.strip()
RECURSIVE LStrip(_)
LStrip(s) == IF s # <<>> /\ Head(s) = " " THEN LStrip(Tail(s)) ELSE s

RECURSIVE RStrip(_)
RStrip(s) ==
    IF s # <<>> /\ s[Len(s)] = " " THEN RStrip(SubSeq(s, 1, Len(s) - 1)) ELSE s

Strip(s) == RStrip(LStrip(s))

\* re.findall with the pattern of one or more digits: the maximal digit runs, left to right
RECURSIVE FindAllFrom(_, _, _)
FindAllFrom(s, i, cur) ==
    IF i > Len(s) THEN (IF cur = <<>> THEN <<>> ELSE <<cur>>)
    ELSE IF s[i] \in Digits THEN FindAllFrom(s, i + 1, Append(cur, s[i]))
    ELSE (IF cur = <<>> THEN <<>> ELSE <<cur>>) \o FindAllFrom(s, i + 1, <<>>)

FindAllDigits(s) == FindAllFrom(s, 1, <<>>)

DigitVal(c) == CASE c = "0" -> 0 [] c = "1" -> 1 [] c = "2" -> 2

\* int(token) of a digit run, base 10
RECURSIVE IntOf(_)
IntOf(d) ==
    IF d = <<>> THEN 0
    ELSE 10 * IntOf(SubSeq(d, 1, Len(d) - 1)) + DigitVal(d[Len(d)])

\* str.replace(old, "") on a text cut into pieces (fence markers are pieces)
RECURSIVE Remove(_, _)
Remove(s, old) ==
    IF s = <<>> THEN <<>>
    ELSE IF Head(s) = old THEN Remove(Tail(s), old)
    ELSE <<Head(s)>> \o Remove(Tail(s), old)

\* the results random.sample(population, n) can return
Samples(population, n) ==
    { [j \in 1..n |-> population[f[j]]] :
        f \in {g \in [1..n -> 1..Len(population)] :
                 \A a, b \in 1..n : a # b => g[a] # g[b]} }

----------------------------------------------------------------------------
(* Configuration *)

ConfigOf(e) ==
    [gemini_api_key  |-> Getenv(e, "GEMINI_API_KEY"),
     email_address   |-> Getenv(e, "EMAIL_ADDRESS"),
     email_password  |-> Getenv(e, "EMAIL_PASSWORD"),
     receiver_emails |-> Split(GetenvDefault(e, "RECEIVER_EMAILS", <<>>), ",")]

\* Configuration.validate: TRUE when it returns, FALSE when it raises ValueError
ValidateOk(c) ==
    All(<<c.gemini_api_key, c.email_address, c.email_password, c.receiver_emails>>)

----------------------------------------------------------------------------
(* GeminiSummarizer.generate_digest: the body of the try block *)

\* ids = re.findall(digits, text.strip())
Ids(t) == FindAllDigits(Strip(t))

\* selected_indices = [int(i) for i in ids[:3]]
ParsedIndices(t) ==
    LET ids == Take(Ids(t), TopK) IN [j \in 1..Len(ids) |-> IntOf(ids[j])]

\* the guard of the comprehension: 0 <= i < len(papers)
InRange(i, all_papers) == 0 <= i /\ i < Len(all_papers)

\* selected_papers = [papers[i] for i in selected_indices if 0 <= i < len(papers)]
RECURSIVE PapersAt(_, _)
PapersAt(indices, all_papers) ==
    IF indices = <<>> THEN <<>>
    ELSE (IF InRange(Head(indices), all_papers)
             THEN <<PyIndex(all_papers, Head(indices))>> ELSE <<>>)
         \o PapersAt(Tail(indices), all_papers)

(* the except block *)

\* a slice one item short
FallbackPapersShort(all_papers) == Take(all_papers, 2)

\* selected_papers = papers[:3]
FallbackPapers(all_papers) == Take(all_papers, 3)

\* selected_indices = [0, 1, 2]
FallbackIndices == <<0, 1, 2>>

----------------------------------------------------------------------------
(* GeminiSummarizer._create_summary_content *)

Piece(kind, pos, content) == [kind |-> kind, pos |-> pos, content |-> content]

Header == Piece("header", -1, <<>>)

\* content = response.text with the opening html fence and then every fence replaced by ""
Sanitize(t) == Remove(Remove(t, "FENCE_HTML"), "FENCE")

Fragment(paper, t) == Piece("narrative", paper, Sanitize(t))

\* the selection walked from its end
LoopItemReversed(sel, i) == sel[Len(sel) + 1 - i]

\* the paper the k-th iteration of (for paper in selected_papers) works on
LoopItem(sel, i) == sel[i]

\* a failure that ends the loop
LoopAborted(i, sel) == Len(sel) + 1

\* the loop position after the except block of an iteration
AfterNarrativeError(i, sel) == i + 1

\* remaining_papers = [p for i, p in enumerate(all_papers) if i not in selected_indices]
RECURSIVE RemainingFrom(_, _, _)
RemainingFrom(all_papers, indices, i) ==
    IF i >= Len(all_papers) THEN <<>>
    ELSE (IF i \notin Range(indices) THEN <<PyIndex(all_papers, i)>> ELSE <<>>)
         \o RemainingFrom(all_papers, indices, i + 1)

\* nothing excluded
RemainingUnfiltered(all_papers, indices) == all_papers

Remaining(all_papers, indices) == RemainingFrom(all_papers, indices, 0)

\* a fixed sample size
SampleSizeFixed(remaining) == BonusK

\* min(3, len(remaining_papers))
SampleSize(remaining) == Min(BonusK, Len(remaining))

\* the bonus section appended after the loop
BonusSection(bonus) ==
    <<Piece("bonus_heading", -1, <<>>), Piece("ul_open", -1, <<>>)>>
    \o [j \in 1..Len(bonus) |-> Piece("li", bonus[j], <<>>)]
    \o <<Piece("ul_close", -1, <<>>)>>

----------------------------------------------------------------------------
(* The calls made to client.models.generate_content *)

Call(kind, pos, result) == [kind |-> kind, pos |-> pos, result |-> result]

Resolve(cs, result) == [cs EXCEPT ![Len(cs)].result = result]

----------------------------------------------------------------------------
Init ==
    /\ env \in [GEMINI_API_KEY : KeyValues, EMAIL_ADDRESS : KeyValues,
                EMAIL_PASSWORD : KeyValues, RECEIVER_EMAILS : ReceiverValues]
    /\ config = None
    /\ pc = "start"
    /\ papers = <<>>
    /\ fetches = 0
    /\ calls = <<>>
    /\ text = None
    /\ selected_indices = <<>>
    /\ selected_papers = <<>>
    /\ k = 0
    /\ summary_html = <<>>
    /\ bonus_papers = <<>>
    /\ sent = "none"

\* DailyDigestApp.__init__
Construct ==
    /\ pc = "start"
    /\ config' = ConfigOf(env)
    /\ pc' = IF ValidateOk(ConfigOf(env)) THEN "constructed" ELSE "config_error"
    /\ UNCHANGED <<env, papers, fetches, calls, text, selected_indices,
                   selected_papers, k, summary_html, bonus_papers, sent>>

\* DailyDigestApp.run: papers = self.fetcher.fetch_papers()
FetchPapers ==
    /\ pc = "constructed"
    /\ fetches' = fetches + 1
    /\ \E n \in 0..MaxN :
          papers' = [i \in 1..n |-> i - 1]
    /\ pc' = "digest"
    /\ UNCHANGED <<env, config, calls, text, selected_indices, selected_papers,
                   k, summary_html, bonus_papers, sent>>

\* fetch_papers raises: run has no handler, the process ends
FetchError ==
    /\ pc = "constructed"
    /\ fetches' = fetches + 1
    /\ pc' = "crashed"
    /\ UNCHANGED <<env, config, papers, calls, text, selected_indices,
                   selected_papers, k, summary_html, bonus_papers, sent>>

\* generate_digest: the selection request is issued
SelectionRequest ==
    /\ pc = "digest"
    /\ calls' = Append(calls, Call("selection", -1, "pending"))
    /\ pc' = "selection_wait"
    /\ UNCHANGED <<env, config, papers, fetches, text, selected_indices,
                   selected_papers, k, summary_html, bonus_papers, sent>>

\* the request returns a text: the rest of the try block
SelectionResponse ==
    /\ pc = "selection_wait"
    /\ \E t \in SelectionTexts :
          /\ text' = t
          /\ selected_indices' = ParsedIndices(t)
          /\ selected_papers' = PapersAt(ParsedIndices(t), papers)
    /\ calls' = Resolve(calls, "ok")
    /\ pc' = "selected"
    /\ UNCHANGED <<env, config, papers, fetches, k, summary_html, bonus_papers, sent>>

\* an exception inside the try block: the except block
SelectionError ==
    /\ pc = "selection_wait"
    /\ text' = None
    /\ selected_papers' = FallbackPapers(papers)
    /\ selected_indices' = FallbackIndices
    /\ calls' = Resolve(calls, "error")
    /\ pc' = "selected"
    /\ UNCHANGED <<env, config, papers, fetches, k, summary_html, bonus_papers, sent>>

\* return self._create_summary_content(...): the header, then the loop starts
EnterCreateSummary ==
    /\ pc = "selected"
    /\ text' = None
    /\ summary_html' = <<Header>>
    /\ k' = 1
    /\ pc' = "loop"
    /\ UNCHANGED <<env, config, papers, fetches, calls, selected_indices,
                   selected_papers, bonus_papers, sent>>

\* one iteration of the loop issues its request
NarrativeRequest ==
    /\ pc = "loop"
    /\ k <= Len(selected_papers)
    /\ calls' = Append(calls, Call("narrative", LoopItem(selected_papers, k), "pending"))
    /\ pc' = "narrative_wait"
    /\ UNCHANGED <<env, config, papers, fetches, text, selected_indices,
                   selected_papers, k, summary_html, bonus_papers, sent>>

\* the request returns a text: summary_html += content
NarrativeResponse ==
    /\ pc = "narrative_wait"
    /\ \E t \in NarrativeTexts :
          summary_html' = Append(summary_html, Fragment(LoopItem(selected_papers, k), t))
    /\ calls' = Resolve(calls, "ok")
    /\ k' = k + 1
    /\ pc' = "loop"
    /\ UNCHANGED <<env, config, papers, fetches, text, selected_indices,
                   selected_papers, bonus_papers, sent>>

\* an exception inside the loop's try block: logged, the loop goes on
NarrativeError ==
    /\ pc = "narrative_wait"
    /\ calls' = Resolve(calls, "error")
    /\ k' = AfterNarrativeError(k, selected_papers)
    /\ pc' = "loop"
    /\ UNCHANGED <<env, config, papers, fetches, text, selected_indices,
                   selected_papers, summary_html, bonus_papers, sent>>

\* after the loop: the bonus draw and the bonus section; the document is returned
BonusAndReturn ==
    /\ pc = "loop"
    /\ k > Len(selected_papers)
    /\ LET remaining == Remaining(papers, selected_indices)
           n == SampleSize(remaining)
       IN  IF n > Len(remaining)
              THEN \* random.sample raises ValueError
                   /\ pc' = "raised"
                   /\ UNCHANGED <<bonus_papers, summary_html>>
              ELSE /\ \E b \in Samples(remaining, n) :
                         /\ bonus_papers' = b
                         /\ summary_html' = summary_html \o BonusSection(b)
                   /\ pc' = "digest_returned"
    /\ UNCHANGED <<env, config, papers, fetches, calls, text, selected_indices,
                   selected_papers, k, sent>>

\* EmailSender.send_email: delivered, or the error is caught and logged
SendEmail ==
    /\ pc = "digest_returned"
    /\ \E r \in {"delivered", "failed"} : sent' = r
    /\ pc' = "done"
    /\ UNCHANGED <<env, config, papers, fetches, calls, text, selected_indices,
                   selected_papers, k, summary_html, bonus_papers>>

Next ==
    \/ Construct
    \/ FetchPapers
    \/ FetchError
    \/ SelectionRequest
    \/ SelectionResponse
    \/ SelectionError
    \/ EnterCreateSummary
    \/ NarrativeRequest
    \/ NarrativeResponse
    \/ NarrativeError
    \/ BonusAndReturn
    \/ SendEmail

Spec == Init /\ [][Next]_vars

----------------------------------------------------------------------------
(* Vocabulary of the properties *)

N == Len(papers)

Distinct(s) == \A a, b \in 1..Len(s) : a # b => s[a] # s[b]

FirstPositions(n) == [i \in 1..n |-> i - 1]

\* int(token) of every digit run of the text, in order of appearance
AllInts(t) == LET ids == FindAllDigits(t) IN [j \in 1..Len(ids) |-> IntOf(ids[j])]

\* the first limit distinct values of vals that lie in [0, n), in first-occurrence order
RECURSIVE RefScan(_, _, _, _)
RefScan(vals, n, limit, acc) ==
    IF vals = <<>> \/ Len(acc) = limit THEN acc
    ELSE IF 0 <= Head(vals) /\ Head(vals) < n /\ Head(vals) \notin Range(acc)
         THEN RefScan(Tail(vals), n, limit, Append(acc, Head(vals)))
         ELSE RefScan(Tail(vals), n, limit, acc)

Reference(t, n) == RefScan(AllInts(t), n, 3, <<>>)

SelectionDone == calls # <<>> /\ calls[1].result # "pending"

SelectionFailed == calls # <<>> /\ calls[1].result = "error"

SelectionParsed == calls # <<>> /\ calls[1].result = "ok"

Returned == pc \in {"digest_returned", "done"}

InDigest == pc \in {"digest", "selection_wait", "selected", "loop", "narrative_wait"}

NarrativeCalls == IF calls = <<>> THEN <<>> ELSE Tail(calls)

Positions(s) == [j \in 1..Len(s) |-> s[j].pos]

IsOk(c) == c.result = "ok"

IsNarrative(p) == p.kind = "narrative"

AllCallsFailed == \A j \in 1..Len(calls) : calls[j].result = "error"

----------------------------------------------------------------------------
(* C1: for every response text of the selection request and every corpus   *)
(* size N, the selection equals the reference result: the first 3 distinct *)
(* integer tokens of the text that lie in [0, N), in first-occurrence      *)
(* order, later tokens still being considered after a skipped one.         *)
C1_SelectionIsReference ==
    (pc = "selected" /\ SelectionParsed) => selected_papers = Reference(text, N)

(* C2: whatever the service returns or however it fails, the selection has *)
(* length at most min(3, N), every position in [0, N), no position twice.  *)
C2_SelectionBoundedDistinct ==
    SelectionDone =>
        /\ Len(selected_papers) <= Min(3, N)
        /\ \A j \in 1..Len(selected_papers) :
              0 <= selected_papers[j] /\ selected_papers[j] < N
        /\ Distinct(selected_papers)

(* C3: when the selection request succeeds but its text yields no valid    *)
(* index, the selection is the default [0, 1, 2] truncated to the corpus   *)
(* size, so it is not empty when N >= 1.                                   *)
C3_EmptyParseFallsBack ==
    (/\ pc = "selected"
     /\ SelectionParsed
     /\ \A j \in 1..Len(AllInts(text)) : ~InRange(AllInts(text)[j], papers))
    => /\ selected_papers = FirstPositions(Min(3, N))
       /\ (N >= 1 => selected_papers # <<>>)

(* C4: when the selection request fails, the error does not propagate and  *)
(* the selection handed to narrative generation is exactly [0, 1, 2] when  *)
(* N >= 3 and exactly [0 .. N-1] when N < 3.                               *)
C4_FailedSelectionDefaults ==
    SelectionFailed =>
        /\ pc \notin {"raised", "crashed", "selection_wait"}
        /\ selected_papers = (IF N >= 3 THEN <<0, 1, 2>> ELSE FirstPositions(N))

C4_Witness ==
    /\ SelectionFailed
    /\ pc = "narrative_wait"
    /\ N = 2
    /\ selected_papers = <<0, 1>>

(* C5: on the parsed path and on the fallback path, for every outcome of   *)
(* the random draw, no selected position is among the bonus items.         *)
C5_BonusDisjoint ==
    /\ Range(bonus_papers) \cap Range(selected_papers) = {}
    /\ \A j \in 1..Len(summary_html) :
          summary_html[j].kind = "li" => summary_html[j].pos \notin Range(selected_papers)

C5_Witness ==
    /\ Returned
    /\ SelectionParsed
    /\ Len(selected_papers) = 2
    /\ Len(bonus_papers) = 2

(* C6: the number of bonus items drawn is exactly                          *)
(* min(3, N - |SelectionResult|) and the bonus positions are distinct.     *)
C6_BonusSize ==
    Returned =>
        /\ Len(bonus_papers) = Min(3, N - Len(selected_papers))
        /\ Distinct(bonus_papers)

(* C7: whichever narrative requests fail, a request is still issued for    *)
(* every selected item, and the document holds, between the header and the *)
(* bonus section, exactly one fragment per selected item whose request     *)
(* succeeded, in selection order, and none for a failed one.               *)
C7_FailureIsolated ==
    Returned =>
        /\ Positions(NarrativeCalls) = selected_papers
        /\ Positions(SelectSeq(summary_html, IsNarrative))
              = Positions(SelectSeq(NarrativeCalls, IsOk))
        /\ LET n == Len(SelectSeq(NarrativeCalls, IsOk))
           IN  /\ summary_html[1] = Header
               /\ \A j \in 2..(n + 1) : summary_html[j].kind = "narrative"
               /\ SubSeq(summary_html, n + 2, Len(summary_html)) = BonusSection(bonus_papers)

C7_Witness ==
    /\ Returned
    /\ Len(NarrativeCalls) = 3
    /\ NarrativeCalls[1].result = "error"
    /\ NarrativeCalls[2].result = "ok"
    /\ NarrativeCalls[3].result = "error"

(* C8: for every corpus size and every combination of outcomes of the      *)
(* generation calls, generate_digest goes on to return a document and      *)
(* never raises; when every call failed the document is the header, no     *)
(* narrative fragment and the bonus section.                               *)
C8_DigestAlwaysReturned ==
    /\ pc # "raised"
    /\ InDigest => ENABLED Next
    /\ Returned =>
          /\ summary_html[1] = Header
          /\ summary_html[Len(summary_html)].kind = "ul_close"
    /\ (Returned /\ AllCallsFailed) =>
          summary_html = <<Header>> \o BonusSection(bonus_papers)

C8_Witness ==
    /\ Returned
    /\ AllCallsFailed
    /\ Len(calls) = 4
    /\ Len(bonus_papers) = 1

(* C9: when a required setting is missing from the environment (API key,   *)
(* sender address, sender password or recipient list), construction raises *)
(* a configuration error and no fetch, generation call or delivery happens.*)
C9_MissingSettingStops ==
    (\E name \in DOMAIN env : env[name] = None) =>
        /\ pc \in {"start", "config_error"}
        /\ fetches = 0
        /\ calls = <<>>
        /\ sent = "none"

(* C10: the generation calls are exactly one selection request, then one   *)
(* narrative request per selected item in selection order, each issued     *)
(* only after the previous one returned or failed; their number is         *)
(* 1 + |SelectionResult| and the bonus draw comes after the last of them.  *)
C10_CallSequence ==
    /\ \A j \in 1..Len(calls) :
          /\ (j = 1) = (calls[j].kind = "selection")
          /\ j > 1 => calls[j].kind = "narrative" /\ calls[j].pos = selected_papers[j - 1]
          /\ j < Len(calls) => calls[j].result # "pending"
    /\ Len(calls) <= 1 + Len(selected_papers) \/ ~SelectionDone
    /\ ~SelectionDone => Len(calls) <= 1
    /\ (Returned \/ \E j \in 1..Len(summary_html) : summary_html[j].kind = "bonus_heading") =>
          /\ Len(calls) = 1 + Len(selected_papers)
          /\ \A j \in 1..Len(calls) : calls[j].result # "pending"

C10_Witness ==
    /\ Returned
    /\ selected_papers = <<2, 0, 1>>
    /\ Len(calls) = 4

====
